---- MODULE Spec2Model ----
(***************************************************************************)
(* A model of the red-black tree of src/RBT.hpp (class RBTree<T> with      *)
(* T = int and Compare = std::less<int>).                                  *)
(*                                                                         *)
(* The heap is a function from addresses to node records.  Address 0 is    *)
(* nullptr; the addresses in pool are the ones operator new can hand       *)
(* out.  A node that was deleted keeps its last contents (a dangling       *)
(* pointer to it reads stale fields) and its address can be handed out     *)
(* again by a later createNode.                                            *)
(*                                                                         *)
(* The code dereferences nullptr in places.  What that does is decided by  *)
(* the build, so an operation that does it has two outcomes: the access    *)
(* kills the process (status "segv"), or address 0 is ordinary zero-filled *)
(* memory that is read and written like a node.  Every such access is      *)
(* recorded in nilAccessed, every access to a freed node in freedAccessed. *)
(***************************************************************************)
EXTENDS Integers, Sequences, FiniteSets, TLC

\* ---- bounds of the model -------------------------------------------------
MaxNodes == 6      \* operator new hands out the addresses 1..MaxNodes; at most MaxNodes live nodes
MaxKey   == 6      \* the values inserted are 1..MaxKey
MaxSteps == 16     \* iterations granted to a fix-up loop before "hang"
MaxBrokenOps == 3  \* insert/remove calls followed on a tree whose parent links are wrong
MoreBrokenOps == 3 \* further such calls followed by the caller that only inserts and removes nodes
MaxCap == 4        \* largest capacity a vector is given
MaxVal == 2        \* the values stored in a vector are 1..MaxVal
SizeBits == 4      \* width of size_type in the vector model
TallNodes == 8     \* addresses of the caller that builds taller trees by inserts alone
TallKeys == 8      \* the values that caller inserts are 1..TallKeys

\* ---- program constants ---------------------------------------------------
Nil   == 0         \* nullptr
BLACK == 0         \* enum e_color { BLACK, RED }
RED   == 1

HeapMax == IF TallNodes > MaxNodes THEN TallNodes ELSE MaxNodes
Addr    == 0..HeapMax
NodeIds == 1..HeapMax
Keys    == 1..MaxKey
WalkFuel == HeapMax + 2   \* a read-only pointer walk longer than this has revisited a node

VARIABLES
  mem,           \* heap: Addr -> RBNode (index 0: the memory at nullptr)
  root,          \* RBTree::_root
  alive,         \* addresses currently allocated (created and not deleted)
  status,        \* "ok" | "segv" (killed by a nullptr access) | "hang" (a loop did not end)
  searchParen,   \* build: where the parenthesis missing in search() is closed
  nilAccessed,   \* some operation so far read or wrote a field of nullptr
  freedAccessed, \* some operation so far read or wrote a field of a deleted node
  phase,         \* history: "fill" (only inserts so far), "drain" (a remove has run)
  brokenLeft,    \* insert/remove calls the model still follows on a tree with wrong parent links
  ret,           \* what the last operation was, on what, and what it returned
  vec,           \* a vector<int>: _ptr (the array it points to), _size, _capacity
  vret,          \* what the last operation on the vector was and what it returned
  pool           \* the addresses operator new can return in this run

vars == <<mem, root, alive, status, searchParen, nilAccessed, freedAccessed, phase, brokenLeft, ret, vec, vret, pool>>

\* RBNode(): parent, right, left, data null, color RED
RBNode(val) == [parent |-> Nil, right |-> Nil, left |-> Nil, data |-> val, color |-> RED]

\* std::less<int>
comp(a, b) == a < b

\* ---- execution records ---------------------------------------------------
\* The operations are functions on an execution record
\*   [mem, root, alive, nilacc, uaf, hang, rot, iter, late, fix]
\* nilacc / uaf accumulate whether nullptr / a deleted node was dereferenced,
\* hang whether a loop was cut off; rot counts the calls of leftRotate and
\* rightRotate, iter the iterations of the loop of fixInsertionViolations, late
\* whether one of them began after a rotation; fix
\* tells whether fixDeleteViolations was called.

\* A local variable: v is evaluated once and F is applied to its value.
With(v, F(_)) == CHOOSE r \in {F(x) : x \in {v}} : TRUE

\* (nothing is recorded once a loop was cut off: what follows never runs)
Touch(e_, p) ==
  With(e_, LAMBDA e :
  IF e.hang THEN e
  ELSE [e EXCEPT !.nilacc = @ \/ (p = Nil),
                 !.uaf    = @ \/ (p # Nil /\ p \notin e.alive)])

\* p->f = v
Wr(e, p, f, v) == Touch([e EXCEPT !.mem[p][f] = v], p)

Hang(e) == [e EXCEPT !.hang = TRUE]

\* ---- rotations -----------------------------------------------------------
rightRotate(e_, node) ==
  With(e_, LAMBDA e :
  LET newNode == e.mem[node].left IN
  With(Touch(Touch(e, node), newNode), LAMBDA e0 :
  With(Wr(e0, node, "left", e0.mem[newNode].right), LAMBDA e1 :
  LET b == e1.mem[newNode].right IN
  With(IF b # Nil THEN Wr(e1, b, "parent", node) ELSE e1, LAMBDA e2 :
  With(Wr(e2, newNode, "parent", e2.mem[node].parent), LAMBDA e3 :
  LET p == e3.mem[node].parent IN
  With(IF p = Nil THEN [e3 EXCEPT !.root = newNode]
       ELSE IF node = e3.mem[p].right THEN Wr(e3, p, "right", newNode)
       ELSE Wr(e3, p, "left", newNode), LAMBDA e4 :
  [Wr(Wr(e4, newNode, "right", node), node, "parent", newNode) EXCEPT !.rot = @ + 1]))))))

leftRotate(e_, node) ==
  With(e_, LAMBDA e :
  LET newNode == e.mem[node].right IN
  With(Touch(Touch(e, node), newNode), LAMBDA e0 :
  With(Wr(e0, node, "right", e0.mem[newNode].left), LAMBDA e1 :
  LET b == e1.mem[newNode].left IN
  With(IF b # Nil THEN Wr(e1, b, "parent", node) ELSE e1, LAMBDA e2 :
  With(Wr(e2, newNode, "parent", e2.mem[node].parent), LAMBDA e3 :
  LET p == e3.mem[node].parent IN
  With(IF p = Nil THEN [e3 EXCEPT !.root = newNode]
       ELSE IF node = e3.mem[p].left THEN Wr(e3, p, "left", newNode)
       ELSE Wr(e3, p, "right", newNode), LAMBDA e4 :
  [Wr(Wr(e4, newNode, "left", node), node, "parent", newNode) EXCEPT !.rot = @ + 1]))))))

\* ---- insertion fix-up ----------------------------------------------------
\* One iteration of the while loop of fixInsertionViolations, entered with
\* k->parent red.  Returns the execution record and the new k.
fixInsertStep(e_, k) ==
  With(e_, LAMBDA e :
  LET p == e.mem[k].parent
      g == e.mem[p].parent
  IN
  With(Touch(e, g), LAMBDA e0 :
  IF p = e0.mem[g].right
  THEN LET uncle == e0.mem[g].left
       IN  IF uncle # Nil /\ e0.mem[uncle].color = RED
           THEN [e |-> Wr(Wr(Wr(e0, uncle, "color", BLACK), p, "color", BLACK), g, "color", RED),
                 k |-> g]
           ELSE LET inner == (k = e0.mem[p].left)
                    k1 == IF inner THEN p ELSE k
                IN
                With(IF inner THEN rightRotate(e0, k1) ELSE e0, LAMBDA e1 :
                With(Wr(e1, e1.mem[k1].parent, "color", BLACK), LAMBDA e2 :
                With(Wr(e2, e2.mem[e2.mem[k1].parent].parent, "color", RED), LAMBDA e3 :
                [e |-> leftRotate(e3, e3.mem[e3.mem[k1].parent].parent), k |-> k1])))
  ELSE LET uncle == e0.mem[g].right
       IN  IF uncle # Nil /\ e0.mem[uncle].color = RED
           THEN [e |-> Wr(Wr(Wr(e0, uncle, "color", BLACK), p, "color", BLACK), g, "color", RED),
                 k |-> g]
           ELSE LET inner == (k = e0.mem[p].right)
                    k1 == IF inner THEN p ELSE k
                IN
                With(IF inner THEN leftRotate(e0, k1) ELSE e0, LAMBDA e1 :
                With(Wr(e1, e1.mem[k1].parent, "color", BLACK), LAMBDA e2 :
                With(Wr(e2, e2.mem[e2.mem[k1].parent].parent, "color", RED), LAMBDA e3 :
                [e |-> rightRotate(e3, e3.mem[e3.mem[k1].parent].parent), k |-> k1])))))

RECURSIVE fixInsertLoop(_, _, _)
RECURSIVE fixInsertLoop_noBreak(_, _, _)
\* the while loop without 'if (k == this->_root) break;' (lines 208-209)
fixInsertLoop_noBreak(e_, k_, fuel) ==
  With(k_, LAMBDA k :
  With(Touch(Touch(e_, k), e_.mem[k].parent), LAMBDA e0 :
  IF e0.mem[e0.mem[k].parent].color # RED THEN e0
  ELSE IF fuel = 0 THEN Hang(e0)
  ELSE With(fixInsertStep([e0 EXCEPT !.iter = @ + 1, !.late = @ \/ e0.rot > 0], k), LAMBDA r :
       fixInsertLoop_noBreak(r.e, r.k, fuel - 1))))

fixInsertLoop(e_, k_, fuel) ==
  With(k_, LAMBDA k :
  With(Touch(Touch(e_, k), e_.mem[k].parent), LAMBDA e0 :
  IF e0.mem[e0.mem[k].parent].color # RED THEN e0
  ELSE IF fuel = 0 THEN Hang(e0)
  ELSE With(fixInsertStep([e0 EXCEPT !.iter = @ + 1, !.late = @ \/ e0.rot > 0], k), LAMBDA r :
       IF r.k = r.e.root THEN r.e ELSE fixInsertLoop(r.e, r.k, fuel - 1))))

\* fixInsertionViolations with the while loop (lines 164-210) left out
fixInsertionViolations_noLoop(e, k) == Wr(e, e.root, "color", BLACK)

fixInsertionViolations(e, k) ==
  With(fixInsertLoop(e, k, MaxSteps), LAMBDA e1 :
  IF e1.hang THEN e1 ELSE Wr(e1, e1.root, "color", BLACK))

\* ---- insert --------------------------------------------------------------
\* The descent of insert(): returns the node under which the new one goes.
RECURSIVE insertDescend(_, _, _, _, _)
insertDescend(e_, val, curr_, parent, fuel) ==
  With(curr_, LAMBDA curr :
  IF curr = Nil THEN [e |-> e_, parent |-> parent]
  ELSE IF fuel = 0 THEN [e |-> Hang(e_), parent |-> parent]
  ELSE With(Touch(e_, curr), LAMBDA e0 :
       IF comp(val, e0.mem[curr].data)
       THEN insertDescend(e0, val, e0.mem[curr].left, curr, fuel - 1)
       ELSE insertDescend(e0, val, e0.mem[curr].right, curr, fuel - 1)))

\* insert(val), lines 346-366, on a tree that is not empty: the new node,
\* created at the address node, linked under the node the descent ended at
attach(e0, node, val) ==
  With(insertDescend(e0, val, e0.root, Nil, WalkFuel), LAMBDA d :
  With(Wr(d.e, node, "parent", d.parent), LAMBDA e1 :
  IF d.e.hang THEN d.e
  ELSE IF comp(val, e1.mem[d.parent].data)
       THEN Wr(e1, d.parent, "left", node)
       ELSE Wr(e1, d.parent, "right", node)))

\* insert(val), with node the address createNode obtained from operator new
insert(e, node, val) ==
  With([e EXCEPT !.mem[node] = RBNode(val), !.alive = @ \cup {node}], LAMBDA e0 :
  IF e0.root = Nil
  THEN Wr([e0 EXCEPT !.root = node], node, "color", BLACK)
  ELSE With(attach(e0, node, val), LAMBDA e2 :
       IF e2.hang THEN e2 ELSE fixInsertionViolations(e2, node)))

\* ---- deletion fix-up -----------------------------------------------------
\* One iteration of the while loop of fixDeleteViolations (x is not the root
\* and x->color is BLACK).  Returns the execution record and the new x.
fixDeleteStep(e_, x) ==
  With(Touch(Touch(e_, x), e_.mem[x].parent), LAMBDA eA :
  LET xp == eA.mem[x].parent IN
  IF x = eA.mem[xp].left
  THEN LET s0 == eA.mem[xp].right IN
       With(Touch(eA, s0), LAMBDA eB :
       LET red == (eB.mem[s0].color = RED) IN
       \* if (s->color == RED) { ...; leftRotate(x->parent); s = x->parent->right; }
       With(IF red
            THEN With(Wr(eB, s0, "color", BLACK), LAMBDA c1 :
                 With(Wr(c1, c1.mem[x].parent, "color", RED), LAMBDA c2 :
                 leftRotate(c2, c2.mem[x].parent)))
            ELSE eB, LAMBDA e1 :
       LET s1 == IF red THEN e1.mem[e1.mem[x].parent].right ELSE s0
           sl == e1.mem[s1].left
           sr == e1.mem[s1].right
       IN
       With(Touch(Touch(e1, s1), sl), LAMBDA e2 :
       LET lblack == (e2.mem[sl].color = BLACK) IN
       With(IF lblack THEN Touch(e2, sr) ELSE e2, LAMBDA e3 :
       IF lblack /\ e3.mem[sr].color = BLACK
       THEN [e |-> Wr(e3, s1, "color", RED), x |-> e3.mem[x].parent]
       ELSE With(Touch(e3, sr), LAMBDA e4 :
            LET rblack == (e4.mem[sr].color = BLACK) IN
            With(IF rblack
                 THEN With(Wr(e4, e4.mem[s1].left, "color", BLACK), LAMBDA c1 :
                      rightRotate(Wr(c1, s1, "color", RED), s1))
                 ELSE e4, LAMBDA e5 :
            LET s2 == IF rblack THEN e5.mem[e5.mem[x].parent].right ELSE s1 IN
            With(Wr(Touch(e5, e5.mem[x].parent), s2, "color",
                    e5.mem[e5.mem[x].parent].color), LAMBDA e6 :
            With(Wr(e6, e6.mem[x].parent, "color", BLACK), LAMBDA e7 :
            With(Wr(Touch(e7, s2), e7.mem[s2].right, "color", BLACK), LAMBDA e8 :
            With(leftRotate(e8, e8.mem[x].parent), LAMBDA e9 :
            [e |-> e9, x |-> e9.root]))))))))))
  ELSE LET s0 == eA.mem[xp].left IN
       With(Touch(eA, s0), LAMBDA eB :
       LET red == (eB.mem[s0].color = RED) IN
       With(IF red
            THEN With(Wr(eB, s0, "color", BLACK), LAMBDA c1 :
                 With(Wr(c1, c1.mem[x].parent, "color", RED), LAMBDA c2 :
                 rightRotate(c2, c2.mem[x].parent)))
            ELSE eB, LAMBDA e1 :
       LET s1 == IF red THEN e1.mem[e1.mem[x].parent].left ELSE s0
           sl == e1.mem[s1].left
           sr == e1.mem[s1].right
       IN
       With(Touch(Touch(e1, s1), sl), LAMBDA e2 :
       LET lblack == (e2.mem[sl].color = BLACK) IN
       With(IF lblack THEN Touch(e2, sr) ELSE e2, LAMBDA e3 :
       IF lblack /\ e3.mem[sr].color = BLACK
       THEN [e |-> Wr(e3, s1, "color", RED), x |-> e3.mem[x].parent]
       ELSE \* if (s->left->color == BLACK) { ...; leftRotate(s); s = x->parent->left; }
            With(IF lblack
                 THEN With(Wr(e3, e3.mem[s1].right, "color", BLACK), LAMBDA c1 :
                      leftRotate(Wr(c1, s1, "color", RED), s1))
                 ELSE e3, LAMBDA e5 :
            LET s2 == IF lblack THEN e5.mem[e5.mem[x].parent].left ELSE s1 IN
            With(Wr(Touch(e5, e5.mem[x].parent), s2, "color",
                    e5.mem[e5.mem[x].parent].color), LAMBDA e6 :
            With(Wr(e6, e6.mem[x].parent, "color", BLACK), LAMBDA e7 :
            With(Wr(Touch(e7, s2), e7.mem[s2].left, "color", BLACK), LAMBDA e8 :
            With(rightRotate(e8, e8.mem[x].parent), LAMBDA e9 :
            [e |-> e9, x |-> e9.root]))))))))))

\* while (x != this->_root && x->color == BLACK): returns [e, x]
RECURSIVE fixDeleteLoop(_, _, _)
fixDeleteLoop(e_, x_, fuel) ==
  With(x_, LAMBDA x :
  IF x = e_.root THEN [e |-> e_, x |-> x]
  ELSE With(Touch(e_, x), LAMBDA e0 :
       IF e0.mem[x].color # BLACK THEN [e |-> e0, x |-> x]
       ELSE IF fuel = 0 THEN [e |-> Hang(e0), x |-> x]
       ELSE With(fixDeleteStep(e0, x), LAMBDA r :
            fixDeleteLoop(r.e, r.x, fuel - 1))))

\* fixDeleteViolations with the assignment x->color = BLACK after the loop
\* (line 290) left out
fixDeleteViolations_keepColor(e, x) == fixDeleteLoop(e, x, MaxSteps).e

fixDeleteViolations(e, x) ==
  With(fixDeleteLoop([e EXCEPT !.fix = TRUE], x, MaxSteps), LAMBDA r :
  IF r.e.hang THEN r.e ELSE Wr(r.e, r.x, "color", BLACK))

\* ---- remove --------------------------------------------------------------
\* replaceNode with the assignment of the root or of the parent's child link
\* (lines 296-301) left out
replaceNode_keepRoot(e_, node, replacement) ==
  With(Touch(e_, node), LAMBDA e0 :
  IF replacement # Nil
  THEN Wr(e0, replacement, "parent", e0.mem[node].parent)
  ELSE e0)

replaceNode(e_, node, replacement) ==
  With(Touch(e_, node), LAMBDA e0 :
  LET np == e0.mem[node].parent IN
  With(IF node = e0.root THEN [e0 EXCEPT !.root = replacement]
       ELSE IF node = e0.mem[np].left THEN Wr(e0, np, "left", replacement)
       ELSE Wr(e0, np, "right", replacement), LAMBDA e1 :
  IF replacement # Nil
  THEN Wr(e1, replacement, "parent", e1.mem[node].parent)
  ELSE e1))

deleteNode(e, node) == [Touch(e, node) EXCEPT !.alive = @ \ {node}]

\* while (successor->left != nullptr) successor = successor->left;
RECURSIVE leftmost(_, _, _)
leftmost(e_, n_, fuel) ==
  With(n_, LAMBDA n :
  With(Touch(e_, n), LAMBDA e0 :
  IF e0.mem[n].left = Nil THEN [e |-> e0, n |-> n]
  ELSE IF fuel = 0 THEN [e |-> Hang(e0), n |-> n]
  ELSE leftmost(e0, e0.mem[n].left, fuel - 1)))

\* while (curr->right) curr = curr->right;
RECURSIVE rightmost(_, _, _)
rightmost(e_, n_, fuel) ==
  With(n_, LAMBDA n :
  With(Touch(e_, n), LAMBDA e0 :
  IF e0.mem[n].right = Nil THEN [e |-> e0, n |-> n]
  ELSE IF fuel = 0 THEN [e |-> Hang(e0), n |-> n]
  ELSE rightmost(e0, e0.mem[n].right, fuel - 1)))

\* remove(node_pointer node), lines 376-415: the node taken out of the tree and
\* not yet deleted; the record after the unlinking, the color recorded, the
\* node handed to the fix-up
unlink(e0, node) ==
  LET nl == e0.mem[node].left
      nr == e0.mem[node].right
  IN
      (IF nl = Nil /\ nr = Nil
       THEN [e |-> replaceNode(e0, node, Nil), originalColor |-> e0.mem[node].color, newNode |-> Nil]
       ELSE IF nr = Nil
       THEN [e |-> replaceNode(e0, node, nl), originalColor |-> e0.mem[node].color, newNode |-> nl]
       ELSE IF nl = Nil
       THEN [e |-> replaceNode(e0, node, nr), originalColor |-> e0.mem[node].color, newNode |-> nr]
       ELSE With(leftmost(e0, nr, WalkFuel), LAMBDA lm :
            LET successor == lm.n
                e1 == lm.e
            IN
            With(IF e1.mem[successor].parent # node
                 THEN With(replaceNode(e1, successor, e1.mem[successor].right), LAMBDA c1 :
                      With(Wr(c1, successor, "right", c1.mem[node].right), LAMBDA c2 :
                      \* successor->right->parent = node->right;
                      Wr(c2, c2.mem[successor].right, "parent", c2.mem[node].right)))
                 ELSE e1, LAMBDA e2 :
            With(replaceNode(e2, node, successor), LAMBDA e3 :
            With(Wr(e3, successor, "left", e3.mem[node].left), LAMBDA e4 :
            With(Wr(e4, e4.mem[successor].left, "parent", successor), LAMBDA e5 :
            [e |-> Wr(e5, successor, "color", e5.mem[node].color),
             originalColor |-> e1.mem[successor].color,
             newNode |-> e1.mem[successor].right]))))))

\* remove(node_pointer node)
remove(e, node) ==
  IF node = Nil THEN e
  ELSE
  With(Touch(e, node), LAMBDA e0 :
  With(unlink(e0, node), LAMBDA r :
  IF r.e.hang THEN r.e
  ELSE IF r.originalColor = BLACK THEN fixDeleteViolations(deleteNode(r.e, node), r.newNode)
  ELSE deleteNode(r.e, node)))

\* ---- search and traversal ------------------------------------------------
\* bool converted to int, as in comp(val, <bool expression>)
BoolToInt(b) == IF b THEN 1 ELSE 0

\* The loop condition of search() after "curr != nullptr &&".  The source line
\*   (!comp(val, *(curr->data) && !comp(*(curr->data), val))
\* lacks one closing parenthesis; paren says where it is put:
\*   "inner":  (!comp(val, *(curr->data)) && !comp(*(curr->data), val))
\*   "outer":  (!comp(val, *(curr->data) && !comp(*(curr->data), val)))
searchCond(paren, val, data) ==
  IF paren = "inner"
  THEN ~comp(val, data) /\ ~comp(data, val)
  ELSE ~comp(val, BoolToInt(data # 0 /\ ~comp(data, val)))

RECURSIVE searchLoop(_, _, _, _, _)
searchLoop(e_, paren, val, curr_, fuel) ==
  With(curr_, LAMBDA curr :
  IF curr = Nil THEN [e |-> e_, n |-> curr]
  ELSE With(Touch(e_, curr), LAMBDA e0 :
       IF ~searchCond(paren, val, e0.mem[curr].data) THEN [e |-> e0, n |-> curr]
       ELSE IF fuel = 0 THEN [e |-> Hang(e0), n |-> curr]
       ELSE IF comp(val, e0.mem[curr].data)
            THEN searchLoop(e0, paren, val, e0.mem[curr].left, fuel - 1)
            ELSE searchLoop(e0, paren, val, e0.mem[curr].right, fuel - 1)))

\* search(val): returns [e, n] with n the node returned
search(e_, paren, val) ==
  With(e_, LAMBDA e :
  IF e.root = Nil THEN [e |-> e, n |-> Nil]
  ELSE With(Touch(e, e.root), LAMBDA e0 :
       IF e0.mem[e0.root].data = val THEN [e |-> e0, n |-> e0.root]
       ELSE searchLoop(e0, paren, val, e0.root, WalkFuel)))

\* remove(const T& val)
removeValue(e, paren, val) ==
  With(search(e, paren, val), LAMBDA s :
  IF s.e.hang THEN s.e
  ELSE IF s.n # Nil THEN remove(s.e, s.n) ELSE s.e)

first(e_) ==
  With(e_, LAMBDA e :
  IF e.root = Nil THEN [e |-> e, n |-> Nil] ELSE leftmost(e, e.root, WalkFuel))

last(e_) ==
  With(e_, LAMBDA e :
  IF e.root = Nil THEN [e |-> e, n |-> Nil] ELSE rightmost(e, e.root, WalkFuel))

\* while (node->parent != nullptr && node == node->parent->right) node = node->parent;
RECURSIVE climb(_, _, _)
climb(e_, node_, fuel) ==
  With(node_, LAMBDA node :
  With(Touch(e_, node), LAMBDA e0 :
  LET p == e0.mem[node].parent IN
  IF p = Nil THEN [e |-> e0, n |-> node]
  ELSE With(Touch(e0, p), LAMBDA e1 :
       IF node # e1.mem[p].right THEN [e |-> e1, n |-> node]
       ELSE IF fuel = 0 THEN [e |-> Hang(e1), n |-> node]
       ELSE climb(e1, p, fuel - 1))))

next_inorder(e_, node) ==
  IF node = Nil THEN [e |-> e_, n |-> Nil]
  ELSE With(Touch(e_, node), LAMBDA e0 :
       IF e0.mem[node].right # Nil
       THEN leftmost(e0, e0.mem[node].right, WalkFuel)
       ELSE With(climb(e0, node, WalkFuel), LAMBDA c :
            [e |-> Touch(c.e, c.n), n |-> c.e.mem[c.n].parent]))

\* size(node_pointer): -1 stands for a recursion that does not end
RECURSIVE sizeOf(_, _, _)
sizeOf(m, node_, fuel) ==
  With(node_, LAMBDA node :
  IF node = Nil THEN 0
  ELSE IF fuel = 0 THEN -1
  ELSE With(sizeOf(m, m[node].left, fuel - 1), LAMBDA l :
       With(sizeOf(m, m[node].right, fuel - 1), LAMBDA r :
       IF l < 0 \/ r < 0 THEN -1 ELSE l + r + 1)))

size(m, r) == sizeOf(m, r, WalkFuel)

\* for (n = first(); n != nullptr; n = next_inorder(n)): the nodes visited, in
\* order, and whether the loop reached nullptr
RECURSIVE walkFrom(_, _, _, _)
walkFrom(e_, node_, acc_, fuel) ==
  With(e_, LAMBDA e :
  With(node_, LAMBDA node :
  With(acc_, LAMBDA acc :
  IF node = Nil THEN [e |-> e, seq |-> acc, ended |-> TRUE]
  ELSE IF fuel = 0 \/ e.hang THEN [e |-> Hang(e), seq |-> acc, ended |-> FALSE]
  ELSE With(next_inorder(e, node), LAMBDA nx :
       walkFrom(nx.e, nx.n, Append(acc, node), fuel - 1)))))

walk(e) ==
  With(first(e), LAMBDA f :
  IF f.e.hang THEN [e |-> f.e, seq |-> <<>>, ended |-> FALSE]
  ELSE walkFrom(f.e, f.n, <<>>, WalkFuel))

\* clear(node_pointer node): returns the execution record and the nodes
\* deleted so far, in the order of their deletion.  fuel bounds the depth of
\* the recursion: on a cycle of child links it never ends.
RECURSIVE clearFrom(_, _, _, _)
clearFrom(e_, node_, acc_, fuel) ==
  With(e_, LAMBDA e :
  With(node_, LAMBDA node :
  With(acc_, LAMBDA acc :
  IF node = Nil \/ e.hang THEN [e |-> e, seq |-> acc]
  ELSE IF fuel = 0 THEN [e |-> Hang(e), seq |-> acc]
  ELSE With(Touch(e, node), LAMBDA e0 :
       With(clearFrom(e0, e0.mem[node].left, acc, fuel - 1), LAMBDA l :
       With(clearFrom(Touch(l.e, node), l.e.mem[node].right, l.seq, fuel - 1), LAMBDA r :
       IF r.e.hang THEN r
       ELSE [e |-> deleteNode(r.e, node), seq |-> Append(r.seq, node)]))))))

\* clear()
clear(e) ==
  With(clearFrom(e, e.root, <<>>, WalkFuel), LAMBDA r :
  IF r.e.hang THEN r ELSE [e |-> [r.e EXCEPT !.root = Nil], seq |-> r.seq])

\* ---- vector.hpp: ft::vector<int> -----------------------------------------
\* The array _ptr points to is a sequence of _capacity slots; a slot holds a
\* value or Raw (storage in which no object has been constructed).  An index n
\* of the code is position n + 1 of the sequence.
Raw  == 0
Vals == 1..MaxVal

\* vector() : _ptr(0), _size(0), _capacity(0)
vector == [ptr |-> <<>>, size |-> 0, capacity |-> 0]

\* reserve(n)
reserve(v, n) ==
  IF n > v.capacity
  THEN [v EXCEPT !.ptr = [i \in 1..n |-> IF i <= v.size THEN v.ptr[i] ELSE Raw],
                 !.capacity = n]
  ELSE v

\* resize(n, val)
resize(v, n, val) ==
  IF n > v.size
  THEN IF n > v.capacity
       THEN [ptr |-> [i \in 1..n |-> IF i <= v.size THEN v.ptr[i] ELSE val],
             size |-> n, capacity |-> n]
       ELSE [v EXCEPT !.ptr = [i \in 1..v.capacity |-> IF v.size < i /\ i <= n THEN val ELSE v.ptr[i]],
                      !.size = n]
  ELSE [v EXCEPT !.ptr = [i \in 1..v.capacity |-> IF i > n THEN Raw ELSE v.ptr[i]],
                 !.size = n]

\* push_back(val)
push_back(v, val) ==
  With(IF v.capacity = 0 THEN reserve(v, 1)
       ELSE IF v.size + 1 > v.capacity THEN reserve(v, v.capacity * 2)
       ELSE v, LAMBDA w :
  [w EXCEPT !.ptr[w.size + 1] = val, !.size = w.size + 1])

\* pop_back()
pop_back(v) == [v EXCEPT !.ptr[v.size] = Raw, !.size = v.size - 1]

\* assign(n, val)
assign(v, n, val) ==
  With(reserve(v, n), LAMBDA w :
  [w EXCEPT !.ptr = [i \in 1..w.capacity |-> IF i <= n THEN val
                                              ELSE IF i <= w.size THEN Raw ELSE w.ptr[i]],
            !.size = n])

\* operator[](n): *(_ptr + n); beyond the array it reads no object
index(v, n) == IF n < v.capacity THEN v.ptr[n + 1] ELSE Raw

\* at(n) with > for >=
at_offByOne(v, n) ==
  IF n > v.size THEN [thrown |-> TRUE, val |-> Raw]
  ELSE [thrown |-> FALSE, val |-> index(v, n)]

\* at(n): what it throws and what it returns
at(v, n) ==
  IF n >= v.size THEN [thrown |-> TRUE, val |-> Raw]
  ELSE [thrown |-> FALSE, val |-> index(v, n)]

\* size_type arithmetic: unsigned, SizeBits wide
SizeT(x) == x % (2 ^ SizeBits)

\* distance(first, last) of two iterators into the array, taken as offsets
\* from _ptr: the number of increments that take first to last
RECURSIVE distance(_, _)
distance(first_, last_) == IF first_ = last_ THEN 0 ELSE SizeT(1 + distance(first_ + 1, last_))

\* One run of an insertion loop `for (i = ...; i >= lo; --i)` that moves
\* _ptr[i] to _ptr[i + n].  r is [v, oob]: oob says that the loop reached
\* outside the array, where the run stops being followed.
RECURSIVE shift(_, _, _, _)
shift(r, i, lo, n) ==
  IF ~(i >= lo) THEN r
  ELSE IF i >= r.v.capacity \/ SizeT(i + n) >= r.v.capacity THEN [r EXCEPT !.oob = TRUE]
  ELSE With([r EXCEPT !.v.ptr[SizeT(i + n) + 1] = r.v.ptr[i + 1]], LAMBDA r1 :
       With([r1 EXCEPT !.v.ptr[i + 1] = Raw], LAMBDA r2 :
       IF i = 0 THEN r2 ELSE shift(r2, SizeT(i - 1), lo, n)))

\* insert(position, val), position at offset idx from _ptr (index in the code)
insert_val(v, position, val) ==
  With(distance(0, position), LAMBDA idx :
  With(IF v.capacity = 0 THEN reserve(v, 1)
       ELSE IF v.size + 1 > v.capacity THEN reserve(v, v.capacity * 2)
       ELSE v, LAMBDA w :
  With(shift([v |-> w, oob |-> FALSE], SizeT(w.size - 1), idx, 1), LAMBDA r :
  IF r.oob THEN r
  ELSE [r EXCEPT !.v.ptr[idx + 1] = val, !.v.size = r.v.size + 1])))

\* while (_size + n > _capacity) reserve(_capacity * 2)
RECURSIVE grow(_, _)
grow(v, n) == IF v.size + n > v.capacity THEN grow(reserve(v, v.capacity * 2), n) ELSE v

\* while (n--) { construct(_ptr + index, val); ++_size; ++index; }
RECURSIVE fill(_, _, _, _)
fill(v, idx, n, val) ==
  IF n = 0 THEN v
  ELSE fill([v EXCEPT !.ptr[idx + 1] = val, !.size = v.size + 1], idx + 1, n - 1, val)

\* insert(position, n, val), position at offset idx from _ptr (index in the code)
insert_fill(v, position, n, val) ==
  With(distance(0, position), LAMBDA idx :
  With(grow(IF v.capacity = 0 THEN reserve(v, 1) ELSE v, n), LAMBDA w :
  With(shift([v |-> w, oob |-> FALSE], SizeT(w.size - 1), SizeT(idx + n), n), LAMBDA r :
  IF r.oob THEN r
  ELSE [r EXCEPT !.v = fill(r.v, idx, n, val)])))

\* ---- vector.hpp: RandIterator -------------------------------------------
\* An iterator is the offset of its _ptr from the start of the array.  A call
\* yields [ended, val]: whether it returned within fuel nested calls, and what.

\* operator>(rhs, lhs): return (rhs > lhs)
RECURSIVE operator_gt(_, _, _)
operator_gt(rhs, lhs, fuel) ==
  IF fuel = 0 THEN [ended |-> FALSE, val |-> FALSE] ELSE operator_gt(rhs, lhs, fuel - 1)

\* operator>=(rhs, lhs): return (rhs >= lhs)
RECURSIVE operator_ge(_, _, _)
operator_ge(rhs, lhs, fuel) ==
  IF fuel = 0 THEN [ended |-> FALSE, val |-> FALSE] ELSE operator_ge(rhs, lhs, fuel - 1)

\* operator<(rhs, lhs): return (rhs < lhs)
RECURSIVE operator_lt(_, _, _)
operator_lt(rhs, lhs, fuel) ==
  IF fuel = 0 THEN [ended |-> FALSE, val |-> FALSE] ELSE operator_lt(rhs, lhs, fuel - 1)

\* operator<=(rhs, lhs): return (rhs <= lhs)
RECURSIVE operator_le(_, _, _)
operator_le(rhs, lhs, fuel) ==
  IF fuel = 0 THEN [ended |-> FALSE, val |-> FALSE] ELSE operator_le(rhs, lhs, fuel - 1)

\* the four of them by name
Relations == {">", ">=", "<", "<="}
relational(rel, rhs, lhs) ==
  CASE rel = ">"  -> operator_gt(rhs, lhs, MaxSteps)
    [] rel = ">=" -> operator_ge(rhs, lhs, MaxSteps)
    [] rel = "<"  -> operator_lt(rhs, lhs, MaxSteps)
    [] rel = "<=" -> operator_le(rhs, lhs, MaxSteps)

\* no operation on the vector yet
NoVRet == [op |-> "init", arg |-> 0, thrown |-> FALSE, val |-> Raw, n |-> 0, oob |-> FALSE, status |-> "ok",
           rel |-> "", bool |-> FALSE]

\* ---- the state machine ---------------------------------------------------
Zero == [parent |-> Nil, right |-> Nil, left |-> Nil, data |-> 0, color |-> BLACK]

NoRet == [op |-> "init", arg |-> 0, node |-> Nil, seq |-> <<>>, ended |-> TRUE, n |-> 0,
          rot |-> 0, iter |-> 0, late |-> FALSE, color |-> BLACK, kids |-> 0]

\* the execution record an operation starts from
Cur == [mem |-> mem, root |-> root, alive |-> alive,
        nilacc |-> FALSE, uaf |-> FALSE, hang |-> FALSE, rot |-> 0, iter |-> 0, late |-> FALSE, fix |-> FALSE]

Links(m, S) == UNION {{m[a].parent, m[a].left, m[a].right} : a \in S}

RECURSIVE Closure(_, _)
Closure(m, S_) ==
  With(S_, LAMBDA S :
  With(S \cup Links(m, S), LAMBDA T :
  IF T = S THEN S ELSE Closure(m, T)))

Range(q) == {q[i] : i \in 1..Len(q)}

\* the nodes below the nodes on stk, parents before children, left before
\* right, each once
RECURSIVE Preorder(_, _, _)
Preorder(m, stk_, acc_) ==
  With(stk_, LAMBDA stk :
  With(acc_, LAMBDA acc :
  IF stk = <<>> THEN acc
  ELSE LET n == Head(stk)
       IN  IF n = Nil \/ n \in Range(acc) THEN Preorder(m, Tail(stk), acc)
           ELSE Preorder(m, <<m[n].left, m[n].right>> \o Tail(stk), Append(acc, n))))

RECURSIVE Ascending(_)
Ascending(S_) ==
  With(S_, LAMBDA S :
  IF S = {} THEN <<>>
  ELSE With(CHOOSE x \in S : \A y \in S : x <= y, LAMBDA a :
       <<a>> \o Ascending(S \ {a})))

\* The code uses an address only to follow it and to compare it for equality,
\* so two heaps that differ by a renaming of the addresses 1..MaxNodes behave
\* alike.  After each operation the heap is kept in one representative: the
\* nodes of the tree are numbered in preorder, then the other live nodes,
\* then the deleted nodes some pointer still leads to.  Memory of a deleted
\* node that no pointer leads to cannot be observed (createNode overwrites
\* every field) and is kept as zeroes.
Canon(e, r) ==
  With(Preorder(e.mem, <<e.root>>, <<>>), LAMBDA tree :
  With(Closure(e.mem, e.alive \cup {Nil, e.root} \cup Range(tree)), LAMBDA seen :
  LET rest  == Ascending(e.alive \ Range(tree))
      stale == Ascending((seen \ {Nil}) \ (e.alive \cup Range(tree)))
      gone  == Ascending(NodeIds \ seen)
  IN
  With(tree \o rest \o stale \o gone, LAMBDA order :
  With([a \in Addr |-> IF a = Nil THEN Nil
                       ELSE CHOOSE i \in 1..Len(order) : order[i] = a], LAMBDA new :
  LET old(i) == IF i = Nil THEN Nil ELSE order[i]
      cell(a) == IF a # Nil /\ a \notin seen THEN Zero
                 ELSE [parent |-> new[e.mem[a].parent], right |-> new[e.mem[a].right],
                       left |-> new[e.mem[a].left], data |-> e.mem[a].data,
                       color |-> e.mem[a].color]
  IN  [mem   |-> [i \in Addr |-> cell(old(i))],
       root  |-> new[e.root],
       alive |-> {new[a] : a \in e.alive},
       ret   |-> [r EXCEPT !.node = new[r.node],
                           !.seq = [k \in 1..Len(r.seq) |-> new[r.seq[k]]]]]))))

Children(m, S) == UNION {{m[a].left, m[a].right} : a \in S} \ {Nil}

RECURSIVE Below(_, _)
Below(m, S_) ==
  With(S_, LAMBDA S :
  With(S \cup Children(m, S), LAMBDA T :
  IF T = S THEN S ELSE Below(m, T)))

\* the nodes of the tree: what the child links lead to from the root
TreeNodes == Below(mem, {root} \ {Nil})

\* the handles a caller can hold: nodes of the tree that were not deleted
Handles == TreeNodes \cap alive

Stored(v) == \E a \in Handles : mem[a].data = v

\* The end of an operation that ran to the execution record e and returns r.
\* An access through nullptr is undefined: trap says which of the two outcomes
\* the build gives, the process is killed (TRUE) or address 0 is memory like
\* any other and the operation runs on (FALSE).
Commit(e_, r) ==
  \E e \in {e_} : \E trap \in (IF e.nilacc THEN BOOLEAN ELSE {FALSE}) :
  /\ nilAccessed' = (nilAccessed \/ e.nilacc)
  /\ freedAccessed' = (freedAccessed \/ e.uaf)
  /\ IF trap
     THEN /\ status' = "segv"
          /\ ret' = r
          /\ UNCHANGED <<mem, root, alive>>
     ELSE IF e.hang
     THEN /\ status' = "hang"
          /\ ret' = r
          /\ UNCHANGED <<mem, root, alive>>
     ELSE \E c \in {Canon(e, r)} :
              /\ status' = "ok"
              /\ ret' = c.ret
              /\ mem' = c.mem
              /\ root' = c.root
              /\ alive' = c.alive

\* The addresses operator new may return for the next node.  Addresses that no
\* pointer refers to are interchangeable, so of those only the lowest is
\* taken; an address a dangling pointer still refers to is a different case
\* and each of them can be returned as well.
FreshAddrs ==
  LET free == pool \ alive IN
  With(free \cap Closure(mem, alive \cup {Nil, root}), LAMBDA dangling :
  With(free \ dangling, LAMBDA clean :
  dangling \cup (IF clean = {} THEN {} ELSE {CHOOSE a \in clean : \A b \in clean : a <= b})))

\* no operation so far has had undefined behaviour, was killed or hangs
Defined == status = "ok" /\ ~nilAccessed /\ ~freedAccessed

\* Once an operation has had undefined behaviour (an access through nullptr or
\* to a deleted node) the language promises nothing about the rest of the run:
\* the model records the outcome of that operation and follows the run no
\* further.  Nor does it follow a run beyond a search or a walk: these write
\* nothing, so the run without them reaches the same trees.  Nor beyond a
\* clear: it leaves the empty tree the run started from.
Running == Defined /\ ret.op \notin {"search", "iterate", "clear"}

\* The end of a search or walk: it has written nothing.
CommitQuery(e_, r_) ==
  \E e \in {e_} : \E r \in {r_} : \E trap \in (IF e.nilacc THEN BOOLEAN ELSE {FALSE}) :
  /\ nilAccessed' = (nilAccessed \/ e.nilacc)
  /\ freedAccessed' = (freedAccessed \/ e.uaf)
  /\ status' = IF trap THEN "segv" ELSE IF e.hang THEN "hang" ELSE "ok"
  /\ ret' = r
  /\ UNCHANGED <<mem, root, alive>>

\* parent links agree with child links
LinksAgree ==
  /\ root # Nil => mem[root].parent = Nil
  /\ \A a \in TreeNodes :
       /\ mem[a].left # Nil => mem[mem[a].left].parent = a
       /\ mem[a].right # Nil => mem[mem[a].right].parent = a

\* The model follows at most MaxBrokenOps modifying calls on a tree whose
\* parent links have gone wrong.
Modifying ==
  /\ Running
  /\ LinksAgree \/ brokenLeft > 0
  /\ brokenLeft' = IF LinksAgree THEN brokenLeft ELSE brokenLeft - 1

Init ==
  /\ mem = [a \in Addr |-> Zero]
  /\ root = Nil
  /\ alive = {}
  /\ status = "ok"
  /\ searchParen \in {"inner", "outer"}
  /\ nilAccessed = FALSE
  /\ freedAccessed = FALSE
  /\ phase = "fill"
  /\ brokenLeft = MaxBrokenOps
  /\ ret = NoRet
  /\ vec = vector
  /\ vret = NoVRet
  /\ pool = 1..MaxNodes

\* tree.insert(v); node is the address operator new returns
InsertOp(v, node) ==
  /\ Modifying
  /\ node \in FreshAddrs
  /\ \E e \in {insert(Cur, node, v)} :
       Commit(e, [NoRet EXCEPT !.op = "insert", !.rot = e.rot, !.iter = e.iter, !.late = e.late])
  /\ UNCHANGED <<searchParen, vec, vret, pool>>

\* tree.remove(node) with node a handle of the tree, or nullptr
RemoveNodeOp(node) ==
  /\ Modifying
  /\ node \in Handles \cup {Nil}
  /\ Commit(remove(Cur, node), [NoRet EXCEPT !.op = "remove", !.arg = mem[node].data,
                                              !.color = mem[node].color,
                                              !.kids = BoolToInt(mem[node].left # Nil) + BoolToInt(mem[node].right # Nil)])
  /\ UNCHANGED <<searchParen, vec, vret, pool>>

\* tree.remove(v)
RemoveValueOp(v) ==
  /\ Modifying
  /\ Commit(removeValue(Cur, searchParen, v), [NoRet EXCEPT !.op = "removeValue", !.arg = v])
  /\ UNCHANGED <<searchParen, vec, vret, pool>>

\* tree.search(v)
Search(v) ==
  /\ Running
  /\ \E s \in {search(Cur, searchParen, v)} :
       CommitQuery(s.e, [NoRet EXCEPT !.op = "search", !.arg = v, !.node = s.n])
  /\ UNCHANGED <<phase, brokenLeft, searchParen, vec, vret, pool>>

\* for (n = tree.first(); n != nullptr; n = tree.next_inorder(n)), then
\* tree.size() and tree.last()
Iterate ==
  /\ Running
  /\ \E w \in {walk(Cur)} : \E l \in {last(w.e)} :
       CommitQuery(l.e, [NoRet EXCEPT !.op = "iterate", !.seq = w.seq, !.ended = w.ended,
                                      !.n = size(mem, root), !.node = l.n])
  /\ UNCHANGED <<phase, brokenLeft, searchParen, vec, vret, pool>>

\* tree.clear(); the memory of the deleted nodes keeps its contents
Clear ==
  /\ Running
  /\ \E c \in {clear(Cur)} :
       /\ nilAccessed' = (nilAccessed \/ c.e.nilacc)
       /\ freedAccessed' = (freedAccessed \/ c.e.uaf)
       /\ status' = IF c.e.hang THEN "hang" ELSE "ok"
       /\ ret' = [NoRet EXCEPT !.op = "clear", !.seq = c.seq]
       /\ root' = c.e.root
       /\ alive' = c.e.alive
       /\ UNCHANGED mem
  /\ UNCHANGED <<phase, brokenLeft, searchParen, vec, vret, pool>>

\* ---- a caller of the vector ----------------------------------------------
treeVars == <<mem, root, alive, status, searchParen, nilAccessed, freedAccessed, phase, brokenLeft, ret, pool>>

\* the caller goes on as long as no call has reached outside the array and
\* every call has returned
VRunning == ~vret.oob /\ vret.status = "ok"

\* The end of an insertion r = [v, oob].  One that reached outside the array
\* has undefined behaviour: the process is killed there ("segv") or goes on
\* with the array as it was at that point.
VCommit(r, rec) ==
  IF r.oob
  THEN \E trap \in BOOLEAN :
         /\ vec' = IF trap THEN vec ELSE r.v
         /\ vret' = [rec EXCEPT !.oob = TRUE, !.status = IF trap THEN "segv" ELSE "ok"]
  ELSE /\ vec' = r.v
       /\ vret' = rec

\* v.reserve(n)
Reserve(n) ==
  /\ VRunning
  /\ vec' = reserve(vec, n)
  /\ vret' = [NoVRet EXCEPT !.op = "reserve", !.arg = n]
  /\ UNCHANGED treeVars

\* v.resize(n, val)
Resize(n, val) ==
  /\ VRunning
  /\ vec' = resize(vec, n, val)
  /\ vret' = [NoVRet EXCEPT !.op = "resize", !.arg = n]
  /\ UNCHANGED treeVars

\* v.push_back(val), as long as the capacity stays within MaxCap
PushBack(val) ==
  /\ VRunning
  /\ push_back(vec, val).capacity <= MaxCap
  /\ vec' = push_back(vec, val)
  /\ vret' = [NoVRet EXCEPT !.op = "push_back", !.arg = val]
  /\ UNCHANGED treeVars

\* v.pop_back() on a vector that is not empty
PopBack ==
  /\ VRunning
  /\ vec.size > 0
  /\ vec' = pop_back(vec)
  /\ vret' = [NoVRet EXCEPT !.op = "pop_back"]
  /\ UNCHANGED treeVars

\* v.assign(n, val)
Assign(n, val) ==
  /\ VRunning
  /\ vec' = assign(vec, n, val)
  /\ vret' = [NoVRet EXCEPT !.op = "assign", !.arg = n]
  /\ UNCHANGED treeVars

\* try { x = v.at(n); } catch (std::out_of_range &) { }
At(n) ==
  /\ VRunning
  /\ \E r \in {at(vec, n)} :
       vret' = [NoVRet EXCEPT !.op = "at", !.arg = n, !.thrown = r.thrown, !.val = r.val]
  /\ UNCHANGED vec
  /\ UNCHANGED treeVars

\* v.insert(v.begin() + position, val), as long as the capacity stays within MaxCap
InsertVal(position, val) ==
  /\ VRunning
  /\ position <= vec.size
  /\ \E r \in {insert_val(vec, position, val)} :
       /\ r.v.capacity <= MaxCap
       /\ VCommit(r, [NoVRet EXCEPT !.op = "insert", !.arg = position, !.val = val])
  /\ UNCHANGED treeVars

\* v.insert(v.begin() + position, n, val), as long as the capacity stays within MaxCap
InsertFill(position, n, val) ==
  /\ VRunning
  /\ position <= vec.size
  /\ \E r \in {insert_fill(vec, position, n, val)} :
       /\ r.v.capacity <= MaxCap
       /\ VCommit(r, [NoVRet EXCEPT !.op = "insert_fill", !.arg = position, !.n = n, !.val = val])
  /\ UNCHANGED treeVars

\* b = (v.begin() + rhs) rel (v.begin() + lhs).  A call that never returns is
\* recursion without end and without effect, which is undefined behaviour:
\* the process spins ("hang"), runs out of stack ("segv"), or a build that
\* assumes the call away goes on with either truth value.
Compare(rel, rhs, lhs) ==
  /\ VRunning
  /\ rhs <= vec.size /\ lhs <= vec.size
  /\ \E r \in {relational(rel, rhs, lhs)} :
       \E st \in IF r.ended THEN {"ok"} ELSE {"hang", "segv", "ok"} :
         \E b \in IF r.ended THEN {r.val} ELSE IF st = "ok" THEN BOOLEAN ELSE {FALSE} :
           vret' = [NoVRet EXCEPT !.op = "compare", !.rel = rel, !.arg = rhs, !.n = lhs,
                                  !.status = st, !.bool = b]
  /\ UNCHANGED vec
  /\ UNCHANGED treeVars

NextVec ==
  \/ \E n \in 0..MaxCap : Reserve(n)
  \/ \E n \in 0..MaxCap : \E val \in Vals : Resize(n, val)
  \/ \E val \in Vals : PushBack(val)
  \/ PopBack
  \/ \E n \in 0..MaxCap : \E val \in Vals : Assign(n, val)
  \/ \E n \in 0..(MaxCap + 1) : At(n)

SpecVec == Init /\ [][NextVec]_vars

\* a caller that inserts as well
NextIns ==
  \/ NextVec
  \/ \E position \in 0..MaxCap : \E val \in Vals : InsertVal(position, val)
  \/ \E position \in 0..MaxCap : \E n \in 0..MaxCap : \E val \in Vals : InsertFill(position, n, val)

SpecIns == Init /\ [][NextIns]_vars

\* a caller that fills a vector and compares iterators into it
NextIter ==
  \/ \E val \in Vals : PushBack(val)
  \/ PopBack
  \/ \E rel \in Relations : \E rhs \in 0..MaxCap : \E lhs \in 0..MaxCap : Compare(rel, rhs, lhs)

SpecIter == Init /\ [][NextIter]_vars

\* ---- a caller that only inserts values that are not stored ----------------
InsertNew(v, node) == ~Stored(v) /\ InsertOp(v, node) /\ UNCHANGED phase

RemoveNode(node) == RemoveNodeOp(node) /\ UNCHANGED phase

RemoveValue(v) == RemoveValueOp(v) /\ UNCHANGED phase

Next ==
  \/ \E v \in Keys : \E node \in FreshAddrs : InsertNew(v, node)
  \/ \E node \in Addr : RemoveNode(node)
  \/ \E v \in Keys : RemoveValue(v)
  \/ \E v \in Keys : Search(v)
  \/ Iterate
  \/ Clear

Spec == Init /\ [][Next]_vars

\* ---- a caller that inserts any value, stored or not -----------------------
InsertAny(v, node) == InsertOp(v, node) /\ UNCHANGED phase

NextDup ==
  \/ \E v \in Keys : \E node \in FreshAddrs : InsertAny(v, node)
  \/ \E v \in Keys : Search(v)
  \/ Iterate

SpecDup == Init /\ [][NextDup]_vars

\* ---- a caller that only inserts new values and removes nodes, followed ------
\* ---- further on a tree whose parent links are wrong -----------------------
InitChurn ==
  /\ mem = [a \in Addr |-> Zero]
  /\ root = Nil
  /\ alive = {}
  /\ status = "ok"
  /\ searchParen \in {"inner", "outer"}
  /\ nilAccessed = FALSE
  /\ freedAccessed = FALSE
  /\ phase = "fill"
  /\ brokenLeft = MaxBrokenOps + MoreBrokenOps
  /\ ret = NoRet
  /\ vec = vector
  /\ vret = NoVRet
  /\ pool = 1..MaxNodes

NextChurn ==
  \/ \E v \in Keys : \E node \in FreshAddrs : InsertNew(v, node)
  \/ \E node \in Addr : RemoveNode(node)

SpecChurn == InitChurn /\ [][NextChurn]_vars

\* ---- a caller that inserts distinct values and then removes every node ----
Fill(v, node) ==
  /\ phase = "fill"
  /\ ~Stored(v)
  /\ InsertOp(v, node)
  /\ UNCHANGED phase

Drain(node) ==
  /\ node # Nil
  /\ RemoveNodeOp(node)
  /\ phase' = "drain"

NextDrain ==
  \/ \E v \in Keys : \E node \in FreshAddrs : Fill(v, node)
  \/ \E node \in NodeIds : Drain(node)

SpecDrain == Init /\ [][NextDrain]_vars

\* ---- the red-black properties, read off the child links from the root ----
\* Number of black nodes on every path from node n down to nullptr, n itself
\* included (black-height of n plus one when n is black); -1 when two paths
\* differ or a path does not end.
RECURSIVE blackCount(_, _, _)
blackCount(m, n_, fuel) ==
  With(n_, LAMBDA n :
  IF n = Nil THEN 0
  ELSE IF fuel = 0 THEN -1
  ELSE With(blackCount(m, m[n].left, fuel - 1), LAMBDA l :
       With(blackCount(m, m[n].right, fuel - 1), LAMBDA r :
       IF l < 0 \/ r < 0 \/ l # r THEN -1
       ELSE l + (IF m[n].color = BLACK THEN 1 ELSE 0))))

BlackHeightDefined == blackCount(mem, root, WalkFuel) >= 0

NoRedRed ==
  \A a \in TreeNodes :
    mem[a].color = RED =>
      /\ (mem[a].left # Nil => mem[mem[a].left].color = BLACK)
      /\ (mem[a].right # Nil => mem[mem[a].right].color = BLACK)

RootBlack == root # Nil => mem[root].color = BLACK

\* C1: after any sequence of insert and remove operations every path from a
\* node down to nullptr passes through the same number of black nodes.
C1_BlackHeight == Defined => BlackHeightDefined

\* C2: after any sequence of insert and remove operations no red node has a
\* red child (read on a tree all of whose nodes are live, so that the colours
\* are those the code last wrote).
C2_NoRedRed == (Defined /\ TreeNodes \subseteq alive) => NoRedRed

\* C3: after every insert and every remove has returned, the root, if there
\* is one, is black.
C3_RootBlack == status = "ok" => RootBlack

\* a remove has returned and left a tree of two nodes or more with a black root
C3_Witness ==
  /\ ret.op = "remove" /\ status = "ok"
  /\ Cardinality(TreeNodes) >= 2
  /\ mem[root].color = BLACK

\* ---- well-formed trees ---------------------------------------------------
Subtree(a) == Below(mem, {a} \ {Nil})

\* binary search tree with strictly increasing values
Ordered ==
  \A a \in TreeNodes :
    /\ \A b \in Subtree(mem[a].left) : comp(mem[b].data, mem[a].data)
    /\ \A b \in Subtree(mem[a].right) : comp(mem[a].data, mem[b].data)

WellFormed ==
  /\ TreeNodes = alive
  /\ LinksAgree
  /\ Ordered
  /\ RootBlack /\ NoRedRed /\ BlackHeightDefined

StoredValues == {mem[a].data : a \in TreeNodes}

\* C4: in a run that inserts distinct values and then removes the nodes one by
\* one, every removal returns, the red-black properties hold after it, and
\* once every node is removed the tree is empty (root absent, size() == 0).
C4_DrainLeavesEmpty ==
  phase = "drain" =>
    /\ status = "ok"
    /\ RootBlack /\ NoRedRed /\ BlackHeightDefined
    /\ alive = {} => (root = Nil /\ size(mem, root) = 0)

\* C5: remove(node) on a well-formed tree, for a node of that tree, runs to
\* completion and never reads or writes a field of nullptr.
C5_RemoveNeverTouchesNil ==
  [][\A node \in NodeIds :
       (WellFormed /\ RemoveNode(node)) => (status' = "ok" /\ ~nilAccessed')]_vars

\* C6: on a tree built from distinct values, search(v) returns a node holding
\* a value equivalent to v when one is stored, and nullptr when none is.
C6_SearchFindsExactly ==
  (ret.op = "search" /\ status = "ok" /\ WellFormed) =>
    IF ret.arg \in StoredValues
    THEN /\ ret.node \in TreeNodes
         /\ ~comp(ret.arg, mem[ret.node].data)
         /\ ~comp(mem[ret.node].data, ret.arg)
    ELSE ret.node = Nil

\* C7: on a tree built from distinct values, remove(k) for a stored k that
\* returns has removed exactly the node holding k: k is gone, every other
\* value is still stored, size() is one less.
C7_RemoveValueRemovesIt ==
  [][\A k \in Keys :
       (WellFormed /\ k \in StoredValues /\ RemoveValue(k) /\ status' = "ok" /\ ~nilAccessed')
         => /\ StoredValues' = StoredValues \ {k}
            /\ size(mem', root') = size(mem, root) - 1]_vars

NonDecreasing(q) == \A i \in 1..(Len(q) - 1) : ~comp(mem[q[i + 1]].data, mem[q[i]].data)

\* C8: after any sequence of insert and remove operations the values met by
\* going from first() along next_inorder are non-decreasing.
C8_WalkNonDecreasing ==
  (ret.op = "iterate" /\ ~nilAccessed /\ ~freedAccessed) => NonDecreasing(ret.seq)

\* C9: after any sequence of insert and remove operations the walk from
\* first() along next_inorder reaches nullptr after exactly size() steps, has
\* met every node of the tree once, and the last node met is last().
C9_WalkEndsAfterSize ==
  (ret.op = "iterate" /\ ~nilAccessed /\ ~freedAccessed) =>
    /\ status = "ok"
    /\ ret.ended
    /\ Len(ret.seq) = ret.n
    /\ Range(ret.seq) = TreeNodes
    /\ Cardinality(Range(ret.seq)) = Len(ret.seq)
    /\ ret.node = (IF ret.seq = <<>> THEN Nil ELSE ret.seq[Len(ret.seq)])

\* C10: no two nodes holding equivalent values ever coexist.
C10_NoEquivalentNodes ==
  Defined =>
    \A a, b \in TreeNodes :
      a # b => (comp(mem[a].data, mem[b].data) \/ comp(mem[b].data, mem[a].data))

\* ---- three keys ------------------------------------------------------------
\* the tree is b with the red leaves a (left) and c (right), a < b < c
ThreeBalanced ==
  /\ root # Nil /\ mem[root].color = BLACK
  /\ LET l == mem[root].left
         r == mem[root].right
     IN  /\ l # Nil /\ r # Nil
         /\ mem[l].color = RED /\ mem[r].color = RED
         /\ mem[l].left = Nil /\ mem[l].right = Nil
         /\ mem[r].left = Nil /\ mem[r].right = Nil
         /\ comp(mem[l].data, mem[root].data) /\ comp(mem[root].data, mem[r].data)

\* C11: three distinct keys inserted into an empty tree, in any order, give
\* the tree whose black root holds the middle key, with the smallest key as
\* red left child and the largest as red right child.
C11_ThreeKeysBalanced ==
  (phase = "fill" /\ status = "ok" /\ Cardinality(alive) = 3) => ThreeBalanced

\* three keys were inserted and nothing was removed
C11_Witness ==
  phase = "fill" /\ status = "ok" /\ ret.op = "insert" /\ Cardinality(alive) = 3 /\ ThreeBalanced

\* ---- removing the middle of three keys --------------------------------------
\* the values met by walking the tree t from first() along next_inorder
WalkValues(t) == LET w == walk(t) IN [i \in 1..Len(w.seq) |-> t.mem[w.seq[i]].data]

\* the tree after the step, as an execution record
After == [mem |-> mem', root |-> root', alive |-> alive',
          nilacc |-> FALSE, uaf |-> FALSE, hang |-> FALSE, rot |-> 0, iter |-> 0, late |-> FALSE, fix |-> FALSE]

\* the root of the three-key tree a, b, c is removed, by handle or by value
RemoveMiddle ==
  /\ WellFormed /\ ThreeBalanced /\ Cardinality(TreeNodes) = 3
  /\ RemoveNode(root) \/ RemoveValue(mem[root].data)

\* root c with left child a and nothing else, size() == 2, the walk yields a, c
RootWithLeft(leftColor) ==
  LET a == mem[mem[root].left].data
      c == mem[mem[root].right].data
      l == mem'[root'].left
  IN  /\ status' = "ok" /\ ~nilAccessed'
      /\ root' # Nil /\ mem'[root'].data = c /\ mem'[root'].color = BLACK
      /\ mem'[root'].right = Nil /\ mem'[root'].parent = Nil
      /\ l # Nil /\ mem'[l].data = a /\ mem'[l].color = leftColor
      /\ mem'[l].left = Nil /\ mem'[l].right = Nil /\ mem'[l].parent = root'
      /\ alive' = {root', l}
      /\ size(mem', root') = 2
      /\ WalkValues(After) = <<a, c>>

\* C12 as stated: after inserting 10, 20, 30 and removing 20 the tree has
\* root 30 with left child 10, both black, size() == 2, and the walk yields
\* 10, 30.
C12_BothBlack == [][RemoveMiddle => RootWithLeft(BLACK)]_vars

\* C12 amended: root 30 is black and its left child 10 is red (removing the
\* root takes out the red successor 30, so no fix-up runs); size() == 2 and
\* the walk yields 10, 30.
C12_LeftChildRed == [][RemoveMiddle => RootWithLeft(RED)]_vars

\* the removal of the middle key has left a black root whose only child is a
\* red left leaf
C12_Witness ==
  /\ ret.op = "remove" /\ status = "ok" /\ ~nilAccessed
  /\ WellFormed /\ Cardinality(TreeNodes) = 2
  /\ mem[root].left # Nil /\ mem[mem[root].left].color = RED
  /\ comp(mem[mem[root].left].data, ret.arg) /\ comp(ret.arg, mem[root].data)

\* ---- balance ---------------------------------------------------------------
\* number of nodes on the longest path from node n_ down to a leaf; -1 when a
\* path does not end
RECURSIVE heightOf(_, _, _)
heightOf(m, n_, fuel) ==
  With(n_, LAMBDA n :
  IF n = Nil THEN 0
  ELSE IF fuel = 0 THEN -1
  ELSE With(heightOf(m, m[n].left, fuel - 1), LAMBDA l :
       With(heightOf(m, m[n].right, fuel - 1), LAMBDA r :
       IF l < 0 \/ r < 0 THEN -1 ELSE 1 + (IF l > r THEN l ELSE r))))

Height == heightOf(mem, root, WalkFuel)

\* C13: after insertions of distinct keys that leave n nodes the height h of
\* the tree is at most 2*log2(n+1), that is 2^h <= (n+1)^2.
C13_HeightBound ==
  (phase = "fill" /\ status = "ok") =>
    /\ Height >= 0
    /\ 2 ^ Height <= (size(mem, root) + 1) * (size(mem, root) + 1)

\* six keys were inserted and the longest path has four nodes (a tree of six
\* nodes without fix-up can be a path of six, which is beyond the bound)
C13_Witness ==
  phase = "fill" /\ status = "ok" /\ size(mem, root) = 6 /\ Height = 4

\* ---- node handles ----------------------------------------------------------
\* h is a live node of the tree of e and holds the value it holds now
Keeps(e, h) ==
  /\ h \in Below(e.mem, {e.root} \ {Nil})
  /\ h \in e.alive
  /\ e.mem[h].data = mem[h].data

\* C14: for every node h of the tree, every insert that returns and every
\* remove of another node that returns leave h a node of the tree holding the
\* same value.
C14_HandlesStay ==
  Running =>
    \A h \in Handles :
      /\ \A v \in Keys : \A node \in FreshAddrs :
           With(insert(Cur, node, v), LAMBDA e : ~e.hang => Keeps(e, h))
      /\ \A n \in Handles \ {h} :
           With(remove(Cur, n), LAMBDA e : ~e.hang => Keeps(e, h))

\* ---- removing what is not there --------------------------------------------
\* C15: remove(nullptr), and remove(v) for a value v that no stored value is
\* equivalent to, leave the nodes, the links, the colors and the root as they
\* are.
C15_RemoveAbsentNoOp ==
  [][(RemoveNode(Nil) \/ \E v \in Keys \ StoredValues : RemoveValue(v))
       => (status' = "ok" /\ UNCHANGED <<mem, root, alive>>)]_vars

\* ---- clear -----------------------------------------------------------------
\* C16: clear() on any tree returns, has destroyed every node of the tree
\* exactly once, each node after both of its children, and leaves the tree
\* empty: no root, size() == 0, first() and last() nullptr.
C16_ClearDestroysAll ==
  [][Clear =>
       /\ status' = "ok" /\ ~freedAccessed'
       /\ Range(ret'.seq) = TreeNodes
       /\ Len(ret'.seq) = Cardinality(TreeNodes)
       /\ \A i \in 1..Len(ret'.seq) :
            \A c \in {mem[ret'.seq[i]].left, mem[ret'.seq[i]].right} \ {Nil} :
              \E j \in 1..(i - 1) : ret'.seq[j] = c
       /\ alive' = alive \ TreeNodes
       /\ root' = Nil
       /\ size(mem', root') = 0
       /\ first(After).n = Nil /\ last(After).n = Nil]_vars

\* ---- vector::at -----------------------------------------------------------
\* C17: at(n) throws out_of_range exactly when n >= size() and leaves size,
\* capacity and elements as they were; for n < size() it returns element n.
C17_AtChecksRange ==
  [][\A n \in 0..(MaxCap + 1) : At(n) =>
       /\ vret'.thrown <=> n >= vec.size
       /\ vec' = vec
       /\ n < vec.size => vret'.val = vec.ptr[n + 1]]_vars

\* at(n) has thrown for n = size(), on a vector that holds elements and has
\* storage beyond them
C17_Witness ==
  /\ vret.op = "at"
  /\ vec.size >= 2
  /\ vec.size < vec.capacity
  /\ vret.thrown /\ vret.arg = vec.size

\* ---- parent links ---------------------------------------------------------
\* C18: after every insert and every remove the root's parent is nullptr and
\* every child of a node of the tree has that node as its parent.
C18_ParentLinksAgree ==
  (Defined /\ ret.op \in {"insert", "remove", "removeValue"}) => LinksAgree

\* ---- insert keeps the red-black properties -------------------------------
\* properties 1, 3 and 4: root black, no red node with a red child, the same
\* number of black nodes on every path from the root down
RedBlack == RootBlack /\ NoRedRed /\ BlackHeightDefined

\* C19: an insert of a new value into a tree that satisfies properties 1, 3
\* and 4 returns, and the tree satisfies them again.  (The step is an insert
\* when ret' says so.)
C19_InsertKeepsRedBlack ==
  [][(RedBlack /\ ret'.op = "insert") => (status' = "ok" /\ RedBlack')]_vars

\* ---- remove of a node with two children ----------------------------------
\* the slot the tree holds node a in: the root or a child link of its parent
InSlotOf(t, a, parent) ==
  IF parent = Nil THEN t.root = a
  ELSE t.mem[parent].left = a \/ t.mem[parent].right = a

\* node y in the place of node x, which had two children: the state when
\* remove has unlinked x and not yet deleted it
Replaces(t, x) ==
  LET y == leftmost(Cur, mem[x].right, WalkFuel).n
      w == walk(deleteNode(t, x))
      before == WalkValues(Cur)
  IN /\ ~t.hang /\ ~t.nilacc /\ ~t.uaf
     /\ InSlotOf(t, y, mem[x].parent)
     /\ t.mem[y].parent = mem[x].parent
     /\ t.mem[y].left = mem[x].left
     /\ t.mem[y].color = mem[x].color
     /\ IF y = mem[x].right
        THEN t.mem[y].right = mem[y].right
        ELSE /\ t.mem[y].right = mem[x].right
             /\ Below(t.mem, {mem[x].right}) = Below(mem, {mem[x].right}) \ {y}
     /\ w.ended /\ ~w.e.hang
     /\ \E i \in 1..Len(before) :
          /\ before[i] = mem[x].data
          /\ WalkValues(deleteNode(t, x)) = SubSeq(before, 1, i - 1) \o SubSeq(before, i + 1, Len(before))

\* C20: when remove(node) has unlinked a node with two children, the node's
\* in-order successor is in the node's slot with the node's parent, left
\* child and color and the rest of the node's right subtree, and the walk
\* in order yields the former values without the removed one.
C20_SuccessorTakesPlace ==
  [][\A node \in NodeIds :
       (WellFormed /\ mem[node].left # Nil /\ mem[node].right # Nil /\ RemoveNode(node))
         => Replaces(unlink(Cur, node).e, node)]_vars

\* ---- a caller that stops using a tree whose parent links are wrong --------
InitIntact ==
  /\ mem = [a \in Addr |-> Zero]
  /\ root = Nil
  /\ alive = {}
  /\ status = "ok"
  /\ searchParen = "outer"
  /\ nilAccessed = FALSE
  /\ freedAccessed = FALSE
  /\ phase = "fill"
  /\ brokenLeft = 0
  /\ ret = NoRet
  /\ vec = vector
  /\ vret = NoVRet
  /\ pool = 1..MaxNodes

SpecIntact == InitIntact /\ [][NextChurn]_vars

\* ---- remove of a black node with one child ---------------------------------
\* the step is remove(node) for the node of the tree given
RemoveOf(node) == ret'.op = "remove" /\ ret'.arg = mem[node].data /\ node \in Handles

\* the children of node a
Kids(a) == {mem[a].left, mem[a].right} \ {Nil}

\* C21: remove of a black node with exactly one child, from a valid tree,
\* puts the child into the node's slot and colors it black, and the tree
\* satisfies properties 1, 3 and 4 afterwards.
C21_BlackWithOneChild ==
  [][\A node \in NodeIds :
       (RemoveOf(node) /\ mem[node].color = BLACK /\ Cardinality(Kids(node)) = 1 /\ WellFormed)
         => \E c \in Kids(node) : \E t \in {remove(Cur, node)} :
              /\ ~t.hang /\ ~t.nilacc /\ ~t.uaf
              /\ InSlotOf(t, c, mem[node].parent)
              /\ t.mem[c].parent = mem[node].parent
              /\ t.mem[c].color = BLACK
              /\ mem[c].color = RED /\ Kids(c) = {}
              /\ status' = "ok" /\ RedBlack']_vars

\* a black node with one child has been removed from a tree of five nodes
C21_Witness ==
  /\ Defined /\ WellFormed
  /\ ret.op = "remove" /\ ret.color = BLACK /\ ret.kids = 1
  /\ Cardinality(alive) = 4

\* ---- when the deletion fix-up runs -----------------------------------------
\* the color of the node that remove(node) takes out of its place: the
\* successor's in the case of two children, the node's own otherwise
RemovedColor(node) ==
  IF mem[node].left # Nil /\ mem[node].right # Nil
  THEN mem[leftmost(Cur, mem[node].right, WalkFuel).n].color
  ELSE mem[node].color

\* t differs from the tree only in that the leaf x is deleted and the child
\* link of its parent that held it is nullptr
OnlyUnlinked(t, x) ==
  /\ t.alive = alive \ {x}
  /\ t.root = IF root = x THEN Nil ELSE root
  /\ \A a \in NodeIds \ {x} :
       IF a = mem[x].parent
       THEN \/ mem[a].left = x /\ t.mem[a] = [mem[a] EXCEPT !.left = Nil]
            \/ mem[a].right = x /\ t.mem[a] = [mem[a] EXCEPT !.right = Nil]
       ELSE t.mem[a] = mem[a]

\* C22: a remove(node) that comes back has called the deletion fix-up exactly
\* when the node taken out of its place was black; remove of a red node
\* without children changes nothing but the child link that held it.
C22_FixupWhenBlackRemoved ==
  Running =>
    \A node \in Handles : \E t \in {remove(Cur, node)} :
      /\ ~t.hang => (t.fix <=> RemovedColor(node) = BLACK)
      /\ (mem[node].color = RED /\ Kids(node) = {}) =>
           (~t.hang /\ ~t.nilacc /\ ~t.uaf /\ OnlyUnlinked(t, node))

\* a red node without children has been removed from a valid tree
C22_Witness ==
  /\ Defined /\ WellFormed
  /\ ret.op = "remove" /\ ret.color = RED /\ ret.kids = 0
  /\ Cardinality(alive) >= 3

\* ---- a caller that builds taller trees by inserts alone --------------------
InitTall ==
  /\ mem = [a \in Addr |-> Zero]
  /\ root = Nil
  /\ alive = {}
  /\ status = "ok"
  /\ searchParen = "outer"
  /\ nilAccessed = FALSE
  /\ freedAccessed = FALSE
  /\ phase = "fill"
  /\ brokenLeft = 0
  /\ ret = NoRet
  /\ vec = vector
  /\ vret = NoVRet
  /\ pool = 1..TallNodes

NextTall == \E v \in 1..TallKeys : \E node \in FreshAddrs : InsertNew(v, node)

SpecTall == InitTall /\ [][NextTall]_vars

\* ---- the insertion fix-up ends ---------------------------------------------
\* C23: an insert into a valid tree returns without touching nullptr; its
\* fix-up loop begins no iteration after a rotation, rotates at most twice
\* and iterates at most height / 2 + 1 times.
C23_InsertFixupBounded ==
  [][(ret'.op = "insert" /\ WellFormed)
       => /\ status' = "ok" /\ ~nilAccessed' /\ ~freedAccessed'
          /\ ~ret'.late
          /\ ret'.rot <= 2
          /\ ret'.iter <= (Height \div 2) + 1]_vars

\* an insert has recolored once, moved two levels up and rotated twice there
C23_Witness ==
  /\ Defined /\ WellFormed
  /\ ret.op = "insert" /\ ret.iter = 2 /\ ret.rot = 2

\* ---- the recoloring iteration of the insertion fix-up ----------------------
\* the other child of the parent of p
Sibling(m, p) == IF m[m[p].parent].right = p THEN m[m[p].parent].left ELSE m[m[p].parent].right

\* r is e with the parent and the uncle of k black and the grandparent red,
\* and nothing else changed; the loop goes on at the grandparent
Recolored(e, r, k) ==
  LET p == e.mem[k].parent
      g == e.mem[p].parent
      u == Sibling(e.mem, p)
  IN /\ r.k = g
     /\ r.e.root = e.root /\ r.e.alive = e.alive
     /\ \A a \in Addr :
          r.e.mem[a] = [e.mem[a] EXCEPT !.color = IF a \in {p, u} THEN BLACK
                                                 ELSE IF a = g THEN RED ELSE @]

\* every iteration of the loop, started at k, that finds parent and uncle red
\* only recolors
RECURSIVE RecolorsOnly(_, _, _)
RecolorsOnly(e, k, fuel) ==
  LET p == e.mem[k].parent
      u == Sibling(e.mem, p)
  IN IF fuel = 0 \/ p = Nil \/ e.mem[p].color # RED THEN TRUE
     ELSE \E r \in {fixInsertStep(e, k)} :
            /\ (u # Nil /\ e.mem[u].color = RED) => Recolored(e, r, k)
            /\ r.k # r.e.root => RecolorsOnly(r.e, r.k, fuel - 1)

\* C24: in every insert, an iteration of the fix-up loop that finds the
\* parent and the uncle of k red changes no link: it colors parent and uncle
\* black and the grandparent red and goes on at the grandparent.  (Checked
\* for trees without deleted nodes and for new nodes at addresses that no
\* pointer refers to.)
C24_UncleRedOnlyRecolors ==
  (Running /\ root # Nil /\ TreeNodes \subseteq alive) =>
    \A v \in (1..TallKeys) \ StoredValues :
      \A node \in FreshAddrs \ Closure(mem, alive \cup {Nil, root}) :
        \E e \in {attach([Cur EXCEPT !.mem[node] = RBNode(v), !.alive = @ \cup {node}], node, v)} :
          RecolorsOnly(e, node, MaxSteps)

\* ---- rotations -------------------------------------------------------------
\* t is the tree after the rotation at x that lifts its child y: same nodes,
\* same colors, y in the child link that held x (the root, if x was the
\* root), and the walk in order yields the values it yielded before (if it
\* came to an end)
Rotated(t, x, y) ==
  /\ ~t.hang /\ ~t.nilacc /\ ~t.uaf
  /\ t.alive = alive
  /\ \A a \in NodeIds : t.mem[a].color = mem[a].color
  /\ \A a \in NodeIds \ {x} :
       /\ mem[a].left = x => t.mem[a].left = y
       /\ mem[a].right = x => t.mem[a].right = y
  /\ x = root => t.root = y
  /\ \E w \in {walk(Cur)} :
       (w.ended /\ ~w.e.hang) =>
         \E wt \in {walk(t)} : wt.ended /\ ~wt.e.hang /\ WalkValues(t) = WalkValues(Cur)

\* C25: leftRotate(x) for a node x with a right child and rightRotate(x) for
\* a node x with a left child keep the nodes, the colors and the in-order
\* sequence of values and put the child into the slot of x.
C25_RotationKeepsOrder ==
  Running =>
    \A x \in Handles :
      /\ mem[x].right # Nil => Rotated(leftRotate(Cur, x), x, mem[x].right)
      /\ mem[x].left # Nil => Rotated(rightRotate(Cur, x), x, mem[x].left)

\* ---- vector::insert --------------------------------------------------------
\* w holds n times val at the offsets idx .. idx + n - 1 of v and the
\* elements of v, in their order, around them
Inserted(v, w, idx, n, val) ==
  /\ w.size = v.size + n
  /\ w.size <= w.capacity
  /\ \A j \in 0..(w.size - 1) :
       w.ptr[j + 1] = IF j < idx THEN v.ptr[j + 1]
                      ELSE IF j < idx + n THEN val
                      ELSE v.ptr[j - n + 1]

\* C26: insert(position, n, val) with n > 0 on a vector that is not empty
\* stays inside the array and leaves a vector of n more elements: n times val
\* from the offset of position on, the former elements in their order, those
\* at or after position n places further.
C26_InsertFillShifts ==
  [][(vret'.op = "insert_fill" /\ vret'.n > 0 /\ vec.size > 0) =>
       /\ ~vret'.oob
       /\ Inserted(vec, vec', vret'.arg, vret'.n, vret'.val)]_vars

\* C27: insert(position, val) on any vector, the empty one too, stays inside
\* the array (the index of its loop, counted down from size() - 1, never comes
\* to an offset at or beyond capacity()) and leaves a vector of one more
\* element: val at the offset of position, the former elements in their order.
C27_InsertValInBounds ==
  [][vret'.op = "insert" =>
       /\ ~vret'.oob
       /\ Inserted(vec, vec', vret'.arg, 1, vret'.val)]_vars

\* ---- RandIterator: relational operators -----------------------------------
\* the ordering of two positions
Ordering(rel, rhs, lhs) ==
  CASE rel = ">"  -> rhs > lhs
    [] rel = ">=" -> rhs >= lhs
    [] rel = "<"  -> rhs < lhs
    [] rel = "<=" -> rhs <= lhs

\* C28: each of <, >, <=, >= on two iterators into the same vector returns,
\* and returns the ordering of the two positions.
C28_RelationalOperatorsOrder ==
  [][vret'.op = "compare" =>
       /\ vret'.status = "ok"
       /\ vret'.bool = Ordering(vret'.rel, vret'.arg, vret'.n)]_vars

====
